---- MODULE Spec2Model ----
(***************************************************************************)
(* X.224 / TPDU layer of rdpy (rdpy/protocol/rdp/tpdu.py): the client      *)
(* connection automata (connect, recvConnectionConfirm, recvData, send)    *)
(* together with the three wire schemas it reads and writes.               *)
(* Bytes are naturals 0..255, a buffer is a sequence of bytes.             *)
(***************************************************************************)
EXTENDS Integers, Sequences, FiniteSets, TLC

(***************************************************************************)
(* Bounds of the model.                                                    *)
(***************************************************************************)
\* number of external events (connect / send / receive) in one behaviour
MaxEvents == 4
\* longest application payload handed to send or carried by a data frame
MaxPayloadLen == 1

(***************************************************************************)
(* Discriminants, tpdu.py:15-53.                                           *)
(***************************************************************************)
X224_TPDU_CONNECTION_REQUEST == 224
X224_TPDU_CONNECTION_CONFIRM == 208
X224_TPDU_DISCONNECT_REQUEST == 128
X224_TPDU_DATA == 240
X224_TPDU_ERROR == 112

TYPE_RDP_NEG_REQ == 1
TYPE_RDP_NEG_RSP == 2
TYPE_RDP_NEG_FAILURE == 3

PROTOCOL_RDP == 0
PROTOCOL_SSL == 1
PROTOCOL_HYBRID == 2
PROTOCOL_HYBRID_EX == 8

SSL_REQUIRED_BY_SERVER == 1
SSL_NOT_ALLOWED_BY_SERVER == 2
SSL_CERT_NOT_ON_SERVER == 3
INCONSISTENT_FLAGS == 4
HYBRID_REQUIRED_BY_SERVER == 5
SSL_WITH_USER_AUTH_REQUIRED_BY_SERVER == 6

(***************************************************************************)
(* Fixed-width integer primitives of the field engine.                     *)
(***************************************************************************)
Take(s, n) == SubSeq(s, 1, n)

Drop(s, n) == SubSeq(s, n + 1, Len(s))

WriteUInt8(v) == <<v % 256>>

WriteUInt16Le(v) == <<v % 256, (v \div 256) % 256>>

WriteUInt16Be(v) == <<(v \div 256) % 256, v % 256>>

WriteUInt32Le(v) ==
    <<v % 256, (v \div 256) % 256, (v \div 65536) % 256, (v \div 16777216) % 256>>

ReadUInt16Le(s) == s[1] + 256 * s[2]

ReadUInt32Le(s) == s[1] + 256 * s[2] + 65536 * s[3] + 16777216 * s[4]

(***************************************************************************)
(* Errors.  The layer raises InvalidExpectedDataException with one of four *)
(* messages (tpdu.py:130,133,136,141,163) or a bare Exception              *)
(* (tpdu.py:161); a failed decode of the field engine is a format error.   *)
(***************************************************************************)
NoError == [class |-> "none", msg |-> "", arg |-> 0]

InvalidExpectedDataException(m, a) ==
    [class |-> "InvalidExpectedDataException", msg |-> m, arg |-> a]

Exception(m) == [class |-> "Exception", msg |-> m, arg |-> 0]

FormatError == [class |-> "FormatError", msg |-> "decode", arg |-> 0]

\* the classes raised by the layer's own raise statements
LayerErrors == {"InvalidExpectedDataException", "Exception"}

\* variant: the two predicates test each other's code
Conditional_CodesSwapped(tag, code) ==
    CASE tag = "selectedProtocol" -> code = 3
      [] tag = "failureCode" -> code = 2
      [] OTHER -> TRUE

(***************************************************************************)
(* Negotiation, tpdu.py:77-91.  A field is a value together with the       *)
(* predicate that decides whether it is on the wire.                       *)
(***************************************************************************)
Conditional(tag, code) ==
    CASE tag = "selectedProtocol" -> code = TYPE_RDP_NEG_RSP
      [] tag = "failureCode" -> code = TYPE_RDP_NEG_FAILURE
      [] OTHER -> TRUE

Negotiation ==
    [code |-> 0,
     _is_readed |-> FALSE,
     flag |-> 0,
     len |-> 8,
     selectedProtocol |-> [_is_readed |-> FALSE, value |-> 0, conditional |-> "selectedProtocol"],
     failureCode |-> [_is_readed |-> FALSE, value |-> 0, conditional |-> "failureCode"]]

WriteNegotiation(n) ==
    WriteUInt8(n.code) \o WriteUInt8(n.flag) \o WriteUInt16Le(n.len)
      \o (IF Conditional(n.selectedProtocol.conditional, n.code)
            THEN WriteUInt32Le(n.selectedProtocol.value) ELSE <<>>)
      \o (IF Conditional(n.failureCode.conditional, n.code)
            THEN WriteUInt32Le(n.failureCode.value) ELSE <<>>)

\* decode of a block from the bytes that remain; too few bytes is an error
ReadNegotiation(s) ==
    IF Len(s) < 4 THEN [error |-> TRUE, neg |-> Negotiation]
    ELSE IF ReadUInt16Le(SubSeq(s, 3, 4)) # Negotiation.len
      THEN [error |-> TRUE, neg |-> Negotiation]
    ELSE LET code == s[1]
             hasSel == Conditional("selectedProtocol", code)
             hasFail == Conditional("failureCode", code)
             need == 4 + (IF hasSel THEN 4 ELSE 0) + (IF hasFail THEN 4 ELSE 0)
         IN IF Len(s) < need THEN [error |-> TRUE, neg |-> Negotiation]
            ELSE [error |-> FALSE,
                  neg |-> [code |-> code,
                           _is_readed |-> TRUE,
                           flag |-> s[2],
                           len |-> 8,
                           selectedProtocol |->
                               [_is_readed |-> hasSel,
                                value |-> IF hasSel THEN ReadUInt32Le(SubSeq(s, 5, 8)) ELSE 0,
                                conditional |-> "selectedProtocol"],
                           failureCode |->
                               [_is_readed |-> hasFail,
                                value |-> IF hasFail THEN ReadUInt32Le(SubSeq(s, 5, 8)) ELSE 0,
                                conditional |-> "failureCode"]]]

(***************************************************************************)
(* TPDUConnectMessage, tpdu.py:55-65.                                      *)
(***************************************************************************)
TPDUConnectMessage ==
    [code |-> 0, padding |-> <<0, 0, 0>>, protocolNeg |-> Negotiation]

\* variant: the trailing block is declared without optional
ProtocolNegOptional_Required == FALSE

\* protocolNeg = Negotiation(optional = True), tpdu.py:65
ProtocolNegOptional == TRUE

\* a block is embedded once one of its fields has been assigned; a fresh
\* Negotiation() still has the code 0, which is no negotiation code
IsSet(n) == n.code # Negotiation.code

\* body of the message, everything after the computed length byte
WriteConnectBody(m) ==
    WriteUInt8(m.code)
      \o WriteUInt16Be(m.padding[1]) \o WriteUInt16Be(m.padding[2]) \o WriteUInt8(m.padding[3])
      \o (IF IsSet(m.protocolNeg) THEN WriteNegotiation(m.protocolNeg) ELSE <<>>)

\* total serialized size of the record, its length byte included
sizeof(m) == 1 + Len(WriteConnectBody(m))

\* variant: the length byte counts itself
ConnectMessageLen_Whole(m) == sizeof(m)

\* self.len = UInt8(lambda:sizeof(self) - 1), tpdu.py:61
ConnectMessageLen(m) == sizeof(m) - 1

WriteConnectMessage(m) == WriteUInt8(ConnectMessageLen(m)) \o WriteConnectBody(m)

\* an optional record is absent, not an error, when the buffer is exhausted
ReadConnectMessage(s) ==
    IF Len(s) < 7 THEN [code |-> 0, len |-> 0, error |-> TRUE, protocolNeg |-> Negotiation]
    ELSE LET n == IF Len(s) = 7 /\ ProtocolNegOptional
                    THEN [error |-> FALSE, neg |-> Negotiation]
                    ELSE ReadNegotiation(Drop(s, 7))
         IN [code |-> s[2], len |-> s[1], error |-> n.error, protocolNeg |-> n.neg]

(***************************************************************************)
(* TPDUDataHeader, tpdu.py:67-75.                                          *)
(***************************************************************************)
TPDUDataHeader == [header |-> 2, messageType |-> X224_TPDU_DATA, separator |-> 128]

WriteDataHeader(h) ==
    WriteUInt8(h.header) \o WriteUInt8(h.messageType) \o WriteUInt8(h.separator)

ReadDataHeader(s) ==
    IF Len(s) < 3 THEN [error |-> TRUE, messageType |-> 0]
    ELSE IF s[1] # TPDUDataHeader.header \/ s[3] # TPDUDataHeader.separator
      THEN [error |-> TRUE, messageType |-> s[2]]
    ELSE [error |-> FALSE, messageType |-> s[2]]

(***************************************************************************)
(* State of one TPDU instance, and what its collaborators have seen.       *)
(***************************************************************************)
VARIABLES
    recv,                \* receive handler armed by setNextState
    _requestedProtocol,  \* tpdu.py:107
    _selectedProtocol,   \* tpdu.py:109
    tlsUpgrades,         \* startTLS calls made on the transport so far
    nSent,               \* units handed to _transport.send so far
    nConnected,          \* connect notifications given to the presentation layer
    nDelivered,          \* buffers given to the presentation layer
    failed,              \* some receive event has been refused by the layer
    last,                \* the latest event: its input, the state it met, its effects
    nEvents,
    codec                \* the latest record put through the codecs on its own

vars == <<recv, _requestedProtocol, _selectedProtocol, tlsUpgrades, nSent,
          nConnected, nDelivered, failed, last, nEvents, codec>>

Idle == "recv"
AwaitingConnectionConfirm == "recvConnectionConfirm"
DataExchange == "recvData"

\* the fields of self that the methods read and assign
Self == [recv |-> recv,
         _requestedProtocol |-> _requestedProtocol,
         _selectedProtocol |-> _selectedProtocol]

\* a method that returns normally without touching the collaborators;
\* order lists the calls it made on them and on setNextState, as made
Return(self) ==
    [self |-> self, err |-> NoError, startTLS |-> 0, connect |-> 0,
     onData |-> <<>>, sent |-> <<>>, order |-> <<>>]

\* a method left by an exception: what was assigned before the raise stays
Raise(self, e) == [Return(self) EXCEPT !.err = e]

\* variant: the requested protocol is stored in the field, which keeps its predicate
sendConnectionRequest_ValueOnly(self) ==
    LET message ==
          [TPDUConnectMessage EXCEPT
             !.code = X224_TPDU_CONNECTION_REQUEST,
             !.protocolNeg.code = TYPE_RDP_NEG_REQ,
             !.protocolNeg.selectedProtocol.value = self._requestedProtocol]
    IN [Return([self EXCEPT !.recv = AwaitingConnectionConfirm])
          EXCEPT !.sent = <<WriteConnectMessage(message)>>,
                 !.order = <<"send", "setNextState">>]

\* variant: the request arms the data handler at once
sendConnectionRequest_ArmsData(self) ==
    LET message ==
          [TPDUConnectMessage EXCEPT
             !.code = X224_TPDU_CONNECTION_REQUEST,
             !.protocolNeg.code = TYPE_RDP_NEG_REQ,
             !.protocolNeg.selectedProtocol =
                 [_is_readed |-> FALSE, value |-> self._requestedProtocol,
                  conditional |-> "always"]]
    IN [Return([self EXCEPT !.recv = DataExchange])
          EXCEPT !.sent = <<WriteConnectMessage(message)>>,
                 !.order = <<"send", "setNextState">>]

\* variant: the request is sent but the confirm handler is never armed
sendConnectionRequest_NotArmed(self) ==
    LET message ==
          [TPDUConnectMessage EXCEPT
             !.code = X224_TPDU_CONNECTION_REQUEST,
             !.protocolNeg.code = TYPE_RDP_NEG_REQ,
             !.protocolNeg.selectedProtocol =
                 [_is_readed |-> FALSE, value |-> self._requestedProtocol,
                  conditional |-> "always"]]
    IN [Return(self) EXCEPT !.sent = <<WriteConnectMessage(message)>>,
                            !.order = <<"send">>]

(***************************************************************************)
(* TPDU.sendConnectionRequest, tpdu.py:165-176.  Assigning to              *)
(* protocolNeg.selectedProtocol replaces the conditional field by the      *)
(* constant of Protocols, which carries no predicate.                      *)
(***************************************************************************)
sendConnectionRequest(self) ==
    LET message ==
          [TPDUConnectMessage EXCEPT
             !.code = X224_TPDU_CONNECTION_REQUEST,
             !.protocolNeg.code = TYPE_RDP_NEG_REQ,
             !.protocolNeg.selectedProtocol =
                 [_is_readed |-> FALSE, value |-> self._requestedProtocol,
                  conditional |-> "always"]]
    IN [Return([self EXCEPT !.recv = AwaitingConnectionConfirm])
          EXCEPT !.sent = <<WriteConnectMessage(message)>>,
                 !.order = <<"send", "setNextState">>]

\* TPDU.connect, tpdu.py:111-116
connect(self) == sendConnectionRequest(self)

\* variant: the header trails the payload
send_HeaderLast(self, message) ==
    [Return(self) EXCEPT !.sent = <<message \o WriteDataHeader(TPDUDataHeader)>>]

\* TPDU.send, tpdu.py:178-183
send(self, message) ==
    [Return(self) EXCEPT !.sent = <<WriteDataHeader(TPDUDataHeader) \o message>>]

\* variant: the message code is not looked at
recvConnectionConfirm_NoCodeCheck(self, data) ==
    LET message == ReadConnectMessage(data)
        adopted == [self EXCEPT !._selectedProtocol = message.protocolNeg.selectedProtocol.value]
    IN IF message.error THEN Raise(self, FormatError)
       ELSE IF ~ message.protocolNeg._is_readed
         THEN Raise(self, InvalidExpectedDataException("server must support negotiation", 0))
       ELSE IF message.protocolNeg.failureCode._is_readed
         THEN Raise(self, InvalidExpectedDataException("negotiation failure code",
                                                      message.protocolNeg.failureCode.value))
       ELSE IF adopted._selectedProtocol # PROTOCOL_SSL
         THEN Raise(adopted, InvalidExpectedDataException("only ssl protocol is supported", 0))
       ELSE [Return([adopted EXCEPT !.recv = DataExchange])
               EXCEPT !.startTLS = 1, !.connect = 1,
                      !.order = <<"startTLS", "setNextState", "connect">>]

\* variant: the code is compared with the request discriminant
recvConnectionConfirm_RequestCode(self, data) ==
    LET message == ReadConnectMessage(data)
        adopted == [self EXCEPT !._selectedProtocol = message.protocolNeg.selectedProtocol.value]
    IN IF message.error THEN Raise(self, FormatError)
       ELSE IF message.code # X224_TPDU_CONNECTION_REQUEST
         THEN Raise(self, InvalidExpectedDataException("invalid TPDU header code", message.code))
       ELSE IF ~ message.protocolNeg._is_readed
         THEN Raise(self, InvalidExpectedDataException("server must support negotiation", 0))
       ELSE IF message.protocolNeg.failureCode._is_readed
         THEN Raise(self, InvalidExpectedDataException("negotiation failure code",
                                                      message.protocolNeg.failureCode.value))
       ELSE IF adopted._selectedProtocol # PROTOCOL_SSL
         THEN Raise(adopted, InvalidExpectedDataException("only ssl protocol is supported", 0))
       ELSE [Return([adopted EXCEPT !.recv = DataExchange])
               EXCEPT !.startTLS = 1, !.connect = 1,
                      !.order = <<"startTLS", "setNextState", "connect">>]

\* variant: the data handler is not armed after the upgrade
recvConnectionConfirm_NotArmed(self, data) ==
    LET message == ReadConnectMessage(data)
        adopted == [self EXCEPT !._selectedProtocol = message.protocolNeg.selectedProtocol.value]
    IN IF message.error THEN Raise(self, FormatError)
       ELSE IF message.code # X224_TPDU_CONNECTION_CONFIRM
         THEN Raise(self, InvalidExpectedDataException("invalid TPDU header code", message.code))
       ELSE IF ~ message.protocolNeg._is_readed
         THEN Raise(self, InvalidExpectedDataException("server must support negotiation", 0))
       ELSE IF message.protocolNeg.failureCode._is_readed
         THEN Raise(self, InvalidExpectedDataException("negotiation failure code",
                                                      message.protocolNeg.failureCode.value))
       ELSE IF adopted._selectedProtocol # PROTOCOL_SSL
         THEN Raise(adopted, InvalidExpectedDataException("only ssl protocol is supported", 0))
       ELSE [Return(adopted) EXCEPT !.startTLS = 1, !.connect = 1,
                                    !.order = <<"startTLS", "connect">>]

\* variant: a missing block is tolerated and the default protocol kept
recvConnectionConfirm_AbsentKeepsDefault(self, data) ==
    LET message == ReadConnectMessage(data)
        adopted == IF message.protocolNeg._is_readed
                     THEN [self EXCEPT !._selectedProtocol = message.protocolNeg.selectedProtocol.value]
                     ELSE self
    IN IF message.error THEN Raise(self, FormatError)
       ELSE IF message.code # X224_TPDU_CONNECTION_CONFIRM
         THEN Raise(self, InvalidExpectedDataException("invalid TPDU header code", message.code))
       ELSE IF message.protocolNeg.failureCode._is_readed
         THEN Raise(self, InvalidExpectedDataException("negotiation failure code",
                                                      message.protocolNeg.failureCode.value))
       ELSE IF adopted._selectedProtocol # PROTOCOL_SSL
         THEN Raise(adopted, InvalidExpectedDataException("only ssl protocol is supported", 0))
       ELSE [Return([adopted EXCEPT !.recv = DataExchange])
               EXCEPT !.startTLS = 1, !.connect = 1,
                      !.order = <<"startTLS", "setNextState", "connect">>]

\* variant: the failure is reported without the peer's code
recvConnectionConfirm_FailureCodeDropped(self, data) ==
    LET message == ReadConnectMessage(data)
        adopted == [self EXCEPT !._selectedProtocol = message.protocolNeg.selectedProtocol.value]
    IN IF message.error THEN Raise(self, FormatError)
       ELSE IF message.code # X224_TPDU_CONNECTION_CONFIRM
         THEN Raise(self, InvalidExpectedDataException("invalid TPDU header code", message.code))
       ELSE IF ~ message.protocolNeg._is_readed
         THEN Raise(self, InvalidExpectedDataException("server must support negotiation", 0))
       ELSE IF message.protocolNeg.failureCode._is_readed
         THEN Raise(self, InvalidExpectedDataException("negotiation failure code",
                                                      0))
       ELSE IF adopted._selectedProtocol # PROTOCOL_SSL
         THEN Raise(adopted, InvalidExpectedDataException("only ssl protocol is supported", 0))
       ELSE [Return([adopted EXCEPT !.recv = DataExchange])
               EXCEPT !.startTLS = 1, !.connect = 1,
                      !.order = <<"startTLS", "setNextState", "connect">>]

\* variant: only the plain protocol is refused
recvConnectionConfirm_OnlyPlainRefused(self, data) ==
    LET message == ReadConnectMessage(data)
        adopted == [self EXCEPT !._selectedProtocol = message.protocolNeg.selectedProtocol.value]
    IN IF message.error THEN Raise(self, FormatError)
       ELSE IF message.code # X224_TPDU_CONNECTION_CONFIRM
         THEN Raise(self, InvalidExpectedDataException("invalid TPDU header code", message.code))
       ELSE IF ~ message.protocolNeg._is_readed
         THEN Raise(self, InvalidExpectedDataException("server must support negotiation", 0))
       ELSE IF message.protocolNeg.failureCode._is_readed
         THEN Raise(self, InvalidExpectedDataException("negotiation failure code",
                                                      message.protocolNeg.failureCode.value))
       ELSE IF adopted._selectedProtocol = PROTOCOL_RDP
         THEN Raise(adopted, InvalidExpectedDataException("only ssl protocol is supported", 0))
       ELSE [Return([adopted EXCEPT !.recv = DataExchange])
               EXCEPT !.startTLS = 1, !.connect = 1,
                      !.order = <<"startTLS", "setNextState", "connect">>]

\* variant: the presentation layer is notified before the data handler is armed
recvConnectionConfirm_NotifyBeforeArmed(self, data) ==
    LET message == ReadConnectMessage(data)
        adopted == [self EXCEPT !._selectedProtocol = message.protocolNeg.selectedProtocol.value]
    IN IF message.error THEN Raise(self, FormatError)
       ELSE IF message.code # X224_TPDU_CONNECTION_CONFIRM
         THEN Raise(self, InvalidExpectedDataException("invalid TPDU header code", message.code))
       ELSE IF ~ message.protocolNeg._is_readed
         THEN Raise(self, InvalidExpectedDataException("server must support negotiation", 0))
       ELSE IF message.protocolNeg.failureCode._is_readed
         THEN Raise(self, InvalidExpectedDataException("negotiation failure code",
                                                      message.protocolNeg.failureCode.value))
       ELSE IF adopted._selectedProtocol # PROTOCOL_SSL
         THEN Raise(adopted, InvalidExpectedDataException("only ssl protocol is supported", 0))
       ELSE [Return([adopted EXCEPT !.recv = DataExchange])
               EXCEPT !.startTLS = 1, !.connect = 1,
                      !.order = <<"startTLS", "connect", "setNextState">>]

\* variant: the peer's protocol is stored only once it has been accepted
recvConnectionConfirm_AdoptAfterCheck(self, data) ==
    LET message == ReadConnectMessage(data)
        adopted == [self EXCEPT !._selectedProtocol = message.protocolNeg.selectedProtocol.value]
    IN IF message.error THEN Raise(self, FormatError)
       ELSE IF message.code # X224_TPDU_CONNECTION_CONFIRM
         THEN Raise(self, InvalidExpectedDataException("invalid TPDU header code", message.code))
       ELSE IF ~ message.protocolNeg._is_readed
         THEN Raise(self, InvalidExpectedDataException("server must support negotiation", 0))
       ELSE IF message.protocolNeg.failureCode._is_readed
         THEN Raise(self, InvalidExpectedDataException("negotiation failure code",
                                                      message.protocolNeg.failureCode.value))
       ELSE IF adopted._selectedProtocol # PROTOCOL_SSL
         THEN Raise(self, InvalidExpectedDataException("only ssl protocol is supported", 0))
       ELSE [Return([adopted EXCEPT !.recv = DataExchange])
               EXCEPT !.startTLS = 1, !.connect = 1,
                      !.order = <<"startTLS", "setNextState", "connect">>]

\* variant: the selected protocol is checked before the failure code
recvConnectionConfirm_ProtocolCheckedFirst(self, data) ==
    LET message == ReadConnectMessage(data)
        adopted == [self EXCEPT !._selectedProtocol = message.protocolNeg.selectedProtocol.value]
    IN IF message.error THEN Raise(self, FormatError)
       ELSE IF message.code # X224_TPDU_CONNECTION_CONFIRM
         THEN Raise(self, InvalidExpectedDataException("invalid TPDU header code", message.code))
       ELSE IF ~ message.protocolNeg._is_readed
         THEN Raise(self, InvalidExpectedDataException("server must support negotiation", 0))
       ELSE IF adopted._selectedProtocol # PROTOCOL_SSL
         THEN Raise(adopted, InvalidExpectedDataException("only ssl protocol is supported", 0))
       ELSE IF message.protocolNeg.failureCode._is_readed
         THEN Raise(adopted, InvalidExpectedDataException("negotiation failure code",
                                                      message.protocolNeg.failureCode.value))
       ELSE [Return([adopted EXCEPT !.recv = DataExchange])
               EXCEPT !.startTLS = 1, !.connect = 1,
                      !.order = <<"startTLS", "setNextState", "connect">>]

(***************************************************************************)
(* TPDU.recvConnectionConfirm, tpdu.py:118-148.                            *)
(***************************************************************************)
recvConnectionConfirm(self, data) ==
    LET message == ReadConnectMessage(data)
        adopted == [self EXCEPT !._selectedProtocol = message.protocolNeg.selectedProtocol.value]
    IN IF message.error THEN Raise(self, FormatError)
       ELSE IF message.code # X224_TPDU_CONNECTION_CONFIRM
         THEN Raise(self, InvalidExpectedDataException("invalid TPDU header code", message.code))
       ELSE IF ~ message.protocolNeg._is_readed
         THEN Raise(self, InvalidExpectedDataException("server must support negotiation", 0))
       ELSE IF message.protocolNeg.failureCode._is_readed
         THEN Raise(self, InvalidExpectedDataException("negotiation failure code",
                                                      message.protocolNeg.failureCode.value))
       ELSE IF adopted._selectedProtocol # PROTOCOL_SSL
         THEN Raise(adopted, InvalidExpectedDataException("only ssl protocol is supported", 0))
       ELSE [Return([adopted EXCEPT !.recv = DataExchange])
               EXCEPT !.startTLS = 1, !.connect = 1,
                      !.order = <<"startTLS", "setNextState", "connect">>]

\* variant: the buffer is forwarded from its start, header included
recvData_HeaderKept(self, data) ==
    LET header == ReadDataHeader(data)
    IN IF header.error THEN Raise(self, FormatError)
       ELSE IF header.messageType = X224_TPDU_DATA
         THEN [Return(self) EXCEPT !.onData = <<data>>]
       ELSE IF header.messageType = X224_TPDU_ERROR
         THEN Raise(self, Exception("receive error from tpdu layer"))
       ELSE Raise(self, InvalidExpectedDataException("unknow tpdu code", header.messageType))

(***************************************************************************)
(* TPDU.recvData, tpdu.py:150-163.                                         *)
(***************************************************************************)
recvData(self, data) ==
    LET header == ReadDataHeader(data)
    IN IF header.error THEN Raise(self, FormatError)
       ELSE IF header.messageType = X224_TPDU_DATA
         THEN [Return(self) EXCEPT !.onData = <<Drop(data, 3)>>]
       ELSE IF header.messageType = X224_TPDU_ERROR
         THEN Raise(self, Exception("receive error from tpdu layer"))
       ELSE Raise(self, InvalidExpectedDataException("unknow tpdu code", header.messageType))

\* the handler of a fresh layer, before connect has armed one
recvIdle(self, data) == Return(self)

\* a receive event goes to whichever handler is armed
dispatch(self, data) ==
    CASE self.recv = AwaitingConnectionConfirm -> recvConnectionConfirm(self, data)
      [] self.recv = DataExchange -> recvData(self, data)
      [] OTHER -> recvIdle(self, data)

(***************************************************************************)
(* Inputs: application payloads and the frames a peer may put on the wire. *)
(***************************************************************************)
PayloadBytes == {0, 240}

Payloads == UNION {[1..n -> PayloadBytes] : n \in 0..MaxPayloadLen}

RspBlock(flag, proto) == <<TYPE_RDP_NEG_RSP, flag, 8, 0>> \o WriteUInt32Le(proto)

FailureBlock(code) == <<TYPE_RDP_NEG_FAILURE, 0, 8, 0>> \o WriteUInt32Le(code)

WellFormedBlocks ==
    {<<>>}
      \cup {RspBlock(0, p) : p \in {PROTOCOL_RDP, PROTOCOL_SSL, PROTOCOL_HYBRID,
                                    PROTOCOL_HYBRID_EX, 257}}
      \cup {RspBlock(1, PROTOCOL_SSL), RspBlock(0, PROTOCOL_SSL) \o <<0>>}
      \cup {FailureBlock(c) : c \in SSL_REQUIRED_BY_SERVER..SSL_WITH_USER_AUTH_REQUIRED_BY_SERVER}
      \cup {<<TYPE_RDP_NEG_REQ, 0, 8, 0>>,
            <<TYPE_RDP_NEG_REQ, 0, 8, 0>> \o WriteUInt32Le(PROTOCOL_SSL),
            <<7, 0, 8, 0>>}

MalformedBlocks ==
    {<<TYPE_RDP_NEG_RSP>>,
     <<TYPE_RDP_NEG_RSP, 0, 8, 0, 1, 0>>,
     <<TYPE_RDP_NEG_RSP, 0, 9, 0, 1, 0, 0, 0>>}

ConnectFrame(code, pad, block) == <<6 + Len(block), code, 0, 0, 0, 0, pad>> \o block

ConfirmFrames ==
    {ConnectFrame(X224_TPDU_CONNECTION_CONFIRM, 0, b) : b \in WellFormedBlocks \cup MalformedBlocks}
      \cup {ConnectFrame(c, 0, b) :
              c \in {X224_TPDU_CONNECTION_REQUEST, X224_TPDU_DISCONNECT_REQUEST,
                     X224_TPDU_DATA, X224_TPDU_ERROR, 0},
              b \in {<<>>, RspBlock(0, PROTOCOL_SSL), RspBlock(0, PROTOCOL_RDP),
                     FailureBlock(SSL_NOT_ALLOWED_BY_SERVER)}}
      \cup {ConnectFrame(X224_TPDU_CONNECTION_CONFIRM, 5, RspBlock(0, PROTOCOL_SSL)),
            <<0, X224_TPDU_CONNECTION_CONFIRM, 0, 0, 0, 0, 0>> \o RspBlock(0, PROTOCOL_SSL),
            <<6, X224_TPDU_CONNECTION_CONFIRM>>}

DataFrames ==
    {<<2, t, 128>> \o p :
        t \in {X224_TPDU_DATA, X224_TPDU_ERROR, X224_TPDU_CONNECTION_CONFIRM, 0},
        p \in Payloads}
      \cup {<<3, X224_TPDU_DATA, 128>>, <<2, X224_TPDU_DATA, 0>>, <<2, X224_TPDU_DATA>>,
            <<3, X224_TPDU_ERROR, 128>>, <<2, 5, 0>>}

Frames == ConfirmFrames \cup DataFrames

(***************************************************************************)
(* The automaton.                                                          *)
(***************************************************************************)
NoEvent ==
    [err |-> NoError, startTLS |-> 0, connect |-> 0,
     onData |-> <<>>, sent |-> <<>>, order |-> <<>>,
     data |-> <<>>, op |-> "init",
     pre |-> [recv |-> Idle, _requestedProtocol |-> PROTOCOL_SSL,
              _selectedProtocol |-> PROTOCOL_SSL]]

NoCodec == [op |-> "none", input |-> <<>>, wire |-> <<>>, output |-> <<>>]

\* TPDU.__init__, tpdu.py:98-109
Init ==
    /\ recv = Idle
    /\ _requestedProtocol = PROTOCOL_SSL
    /\ _selectedProtocol = PROTOCOL_SSL
    /\ tlsUpgrades = 0
    /\ nSent = 0
    /\ nConnected = 0
    /\ nDelivered = 0
    /\ failed = FALSE
    /\ last = NoEvent
    /\ nEvents = 0
    /\ codec = NoCodec

\* one event: the method runs to its return or its raise, and the
\* collaborators see the calls it made
Apply(op, data, r) ==
    /\ nEvents < MaxEvents
    /\ nEvents' = nEvents + 1
    /\ recv' = r.self.recv
    /\ _requestedProtocol' = r.self._requestedProtocol
    /\ _selectedProtocol' = r.self._selectedProtocol
    /\ tlsUpgrades' = tlsUpgrades + r.startTLS
    /\ nSent' = nSent + Len(r.sent)
    /\ nConnected' = nConnected + r.connect
    /\ nDelivered' = nDelivered + Len(r.onData)
    /\ failed' = (failed \/ (op = "recv" /\ r.err.class \in LayerErrors))
    /\ last' = [err |-> r.err, startTLS |-> r.startTLS, connect |-> r.connect,
                onData |-> r.onData, sent |-> r.sent, order |-> r.order,
                data |-> data, op |-> op, pre |-> Self]
    /\ codec' = codec

Connect == Apply("connect", <<>>, connect(Self))

Send == \E message \in Payloads : Apply("send", message, send(Self, message))

Recv == \E data \in Frames : Apply("recv", data, dispatch(Self, data))

Next == Connect \/ Send \/ Recv

Spec == Init /\ [][Next]_vars

TypeOK ==
    /\ recv \in {Idle, AwaitingConnectionConfirm, DataExchange}
    /\ _requestedProtocol = PROTOCOL_SSL
    /\ _selectedProtocol \in Nat
    /\ tlsUpgrades \in 0..MaxEvents
    /\ nEvents \in 0..MaxEvents

(***************************************************************************)
(* The codecs on their own: records drawn from bounded sets are written,   *)
(* and what was written is read back.  The automaton stands still.         *)
(***************************************************************************)
NegotiationCodes == {TYPE_RDP_NEG_REQ, TYPE_RDP_NEG_RSP, TYPE_RDP_NEG_FAILURE}

NegotiationBlocks ==
    {[Negotiation EXCEPT !.code = c, !.flag = f,
                         !.selectedProtocol.value = p, !.failureCode.value = e] :
        c \in NegotiationCodes,
        f \in {0, 1},
        p \in {PROTOCOL_RDP, PROTOCOL_SSL, PROTOCOL_HYBRID, PROTOCOL_HYBRID_EX, 257},
        e \in {0, SSL_REQUIRED_BY_SERVER, SSL_NOT_ALLOWED_BY_SERVER,
               SSL_WITH_USER_AUTH_REQUIRED_BY_SERVER}}

ConnectMessages ==
    {[TPDUConnectMessage EXCEPT !.code = c, !.protocolNeg = n] :
        c \in {X224_TPDU_CONNECTION_REQUEST, X224_TPDU_CONNECTION_CONFIRM},
        n \in {Negotiation}
                \cup {b \in NegotiationBlocks :
                        /\ b.flag = 0
                        /\ b.selectedProtocol.value \in {PROTOCOL_SSL, PROTOCOL_HYBRID}
                        /\ b.failureCode.value \in {0, SSL_NOT_ALLOWED_BY_SERVER}}}

Codec(op, input, wire, output) ==
    /\ codec' = [op |-> op, input |-> input, wire |-> wire, output |-> output]
    /\ UNCHANGED <<recv, _requestedProtocol, _selectedProtocol, tlsUpgrades, nSent,
                   nConnected, nDelivered, failed, last, nEvents>>

EncodeNegotiation ==
    \E n \in NegotiationBlocks :
        Codec("Negotiation", n, WriteNegotiation(n), ReadNegotiation(WriteNegotiation(n)))

EncodeConnectMessage ==
    \E m \in ConnectMessages :
        Codec("TPDUConnectMessage", m, WriteConnectMessage(m),
              ReadConnectMessage(WriteConnectMessage(m)))

\* the one Connection Message the layer itself writes, tpdu.py:171-175
EncodeConnectionRequest ==
    LET unit == connect(Self).sent[1]
    IN Codec("sendConnectionRequest", Self, unit, ReadConnectMessage(unit))

CodecNext == EncodeNegotiation \/ EncodeConnectMessage \/ EncodeConnectionRequest

CodecSpec == Init /\ [][CodecNext]_vars

(***************************************************************************)
(* Vocabulary of the properties.                                           *)
(***************************************************************************)
\* the latest event was a receive met by the confirm handler
ConfirmEvent == last.op = "recv" /\ last.pre.recv = AwaitingConnectionConfirm

\* the latest event was a receive met by the data handler
DataEvent == last.op = "recv" /\ last.pre.recv = DataExchange

\* the Connection Message carried by the latest event
Received == ReadConnectMessage(last.data)

\* a buffer decodes to a confirm that passes every check of the handshake
PassesEveryCheck(d) ==
    LET m == ReadConnectMessage(d)
    IN /\ ~ m.error
       /\ m.code = X224_TPDU_CONNECTION_CONFIRM
       /\ m.protocolNeg._is_readed
       /\ ~ m.protocolNeg.failureCode._is_readed
       /\ m.protocolNeg.selectedProtocol.value = PROTOCOL_SSL

\* the class of error the confirm handler uses for an unexpected message
UnexpectedMessageError == "InvalidExpectedDataException"

ValidConfirm == ConnectFrame(X224_TPDU_CONNECTION_CONFIRM, 0, RspBlock(0, PROTOCOL_SSL))

(***************************************************************************)
(* C1: a step makes a TLS-upgrade call on the transport if and only if it  *)
(* is a receive event met in AwaitingConnectionConfirm whose message has   *)
(* code CONNECTION_CONFIRM, a negotiation block, no failure code and       *)
(* selectedProtocol = TLS.                                                 *)
(***************************************************************************)
C1_TlsUpgradeIffConfirmPassed ==
    [][(tlsUpgrades' # tlsUpgrades)
         <=> (/\ last'.op = "recv"
              /\ nEvents' # nEvents
              /\ recv = AwaitingConnectionConfirm
              /\ PassesEveryCheck(last'.data))]_vars

C1_Witness ==
    /\ ConfirmEvent
    /\ PassesEveryCheck(last.data)
    /\ last.startTLS = 1
    /\ tlsUpgrades = 1

(***************************************************************************)
(* C2: in AwaitingConnectionConfirm a confirm whose negotiation block is a *)
(* response selecting TLS, with no failure code, moves the automaton to    *)
(* DataExchange and makes exactly one TLS-upgrade call.                    *)
(***************************************************************************)
C2_ValidConfirmReachesDataExchange ==
    (/\ ConfirmEvent
     /\ ~ Received.error
     /\ Received.code = X224_TPDU_CONNECTION_CONFIRM
     /\ Received.protocolNeg._is_readed
     /\ Received.protocolNeg.code = TYPE_RDP_NEG_RSP
     /\ Received.protocolNeg.selectedProtocol.value = PROTOCOL_SSL
     /\ ~ Received.protocolNeg.failureCode._is_readed)
      => (recv = DataExchange /\ last.startTLS = 1)

C2_Witness ==
    /\ ConfirmEvent
    /\ last.data = ValidConfirm
    /\ recv = DataExchange
    /\ last.startTLS = 1

(***************************************************************************)
(* C3: once a receive event has failed the automaton is in a terminal      *)
(* Failed state: no later event reaches DataExchange, issues a TLS         *)
(* upgrade, notifies onConnected or delivers a payload.                    *)
(***************************************************************************)
C3_FailedIsTerminal ==
    [][failed =>
         /\ (recv # DataExchange => recv' # DataExchange)
         /\ tlsUpgrades' = tlsUpgrades
         /\ nConnected' = nConnected
         /\ nDelivered' = nDelivered]_vars

(***************************************************************************)
(* C4 (as stated): in AwaitingConnectionConfirm a confirm whose            *)
(* negotiation block carries a failure code fails with an error of a kind  *)
(* distinct from the unexpected-message error, carrying the peer's         *)
(* failureCode; no TLS upgrade, and the state is not DataExchange.         *)
(***************************************************************************)
FailureConfirm ==
    /\ ConfirmEvent
    /\ ~ Received.error
    /\ Received.code = X224_TPDU_CONNECTION_CONFIRM
    /\ Received.protocolNeg._is_readed
    /\ Received.protocolNeg.failureCode._is_readed

C4_DistinctNegotiationFailureError ==
    FailureConfirm
      => /\ last.err # NoError
         /\ last.err.class # UnexpectedMessageError
         /\ last.err.arg = Received.protocolNeg.failureCode.value
         /\ last.startTLS = 0
         /\ recv # DataExchange

(***************************************************************************)
(* C4 (amended): such a confirm fails with an                              *)
(* InvalidExpectedDataException, the class of the other confirm            *)
(* rejections, told apart by its message "negotiation failure code" and    *)
(* carrying exactly the peer's failureCode; no TLS upgrade is issued and   *)
(* the state does not become DataExchange.                                 *)
(***************************************************************************)
C4_NegotiationFailureCarriesCode ==
    FailureConfirm
      => /\ last.err.class = UnexpectedMessageError
         /\ last.err.msg = "negotiation failure code"
         /\ last.err.arg = ReadUInt32Le(SubSeq(last.data, 12, 15))
         /\ last.startTLS = 0
         /\ recv # DataExchange

C4_Witness ==
    /\ FailureConfirm
    /\ last.data = ConnectFrame(X224_TPDU_CONNECTION_CONFIRM, 0,
                                FailureBlock(SSL_NOT_ALLOWED_BY_SERVER))
    /\ last.err.arg = SSL_NOT_ALLOWED_BY_SERVER

(***************************************************************************)
(* C5: in AwaitingConnectionConfirm a confirm that ends after the padding, *)
(* with no negotiation block, fails with the unexpected-message error      *)
(* "server must support negotiation"; no TLS upgrade, no onConnected, and  *)
(* the state does not become DataExchange.                                 *)
(***************************************************************************)
C5_ConfirmWithoutNegotiation ==
    (/\ ConfirmEvent
     /\ Len(last.data) = 7
     /\ last.data[2] = X224_TPDU_CONNECTION_CONFIRM)
      => /\ last.err.class = UnexpectedMessageError
         /\ last.err.msg = "server must support negotiation"
         /\ last.startTLS = 0
         /\ last.connect = 0
         /\ recv # DataExchange

C5_Witness ==
    /\ ConfirmEvent
    /\ last.data = ConnectFrame(X224_TPDU_CONNECTION_CONFIRM, 0, <<>>)
    /\ last.err # NoError

(***************************************************************************)
(* C6: in AwaitingConnectionConfirm a confirm whose negotiation block is   *)
(* present without failure code and whose selectedProtocol is not TLS      *)
(* (plain, hybrid, hybrid-extended, or not read because the block is       *)
(* neither response nor failure) fails with the unexpected-message error   *)
(* "only ssl protocol is supported"; no TLS upgrade, and the state does    *)
(* not become DataExchange.                                                *)
(***************************************************************************)
UnsupportedConfirm ==
    /\ ConfirmEvent
    /\ ~ Received.error
    /\ Received.code = X224_TPDU_CONNECTION_CONFIRM
    /\ Received.protocolNeg._is_readed
    /\ ~ Received.protocolNeg.failureCode._is_readed
    /\ \/ ~ Received.protocolNeg.selectedProtocol._is_readed
       \/ Received.protocolNeg.selectedProtocol.value # PROTOCOL_SSL

C6_UnsupportedProtocolRejected ==
    UnsupportedConfirm
      => /\ last.err.class = UnexpectedMessageError
         /\ last.err.msg = "only ssl protocol is supported"
         /\ last.startTLS = 0
         /\ recv # DataExchange

C6_Witness ==
    /\ UnsupportedConfirm
    /\ last.data = ConnectFrame(X224_TPDU_CONNECTION_CONFIRM, 0, RspBlock(0, PROTOCOL_HYBRID))
    /\ last.err # NoError

(***************************************************************************)
(* C7: in AwaitingConnectionConfirm a Connection Message whose code is not *)
(* CONNECTION_CONFIRM fails: with the error "invalid TPDU header code"     *)
(* when the message decodes, with a decode error otherwise; no TLS upgrade *)
(* is issued and the state does not become DataExchange.                   *)
(***************************************************************************)
C7_WrongCodeRejected ==
    (/\ ConfirmEvent
     /\ Len(last.data) >= 2
     /\ last.data[2] # X224_TPDU_CONNECTION_CONFIRM)
      => /\ last.err # NoError
         /\ ~ Received.error
              => last.err = InvalidExpectedDataException("invalid TPDU header code", last.data[2])
         /\ last.startTLS = 0
         /\ recv # DataExchange

C7_Witness ==
    /\ ConfirmEvent
    /\ last.data = ConnectFrame(X224_TPDU_CONNECTION_REQUEST, 0, RspBlock(0, PROTOCOL_SSL))
    /\ last.err # NoError

(***************************************************************************)
(* C8: in DataExchange a frame carrying a data header is dispatched on the *)
(* header's messageType: DATA forwards the bytes after the 3-byte header   *)
(* unchanged and stays in DataExchange; ERROR raises the peer-reported     *)
(* error and forwards nothing; any other byte raises the unrecognized-     *)
(* frame error, of another class, and forwards nothing.                    *)
(***************************************************************************)
CarriesDataHeader(d) == Len(d) >= 3 /\ d[1] = 2 /\ d[3] = 128

C8_DataDispatch ==
    (DataEvent /\ CarriesDataHeader(last.data))
      => /\ last.data[2] = X224_TPDU_DATA
              => /\ last.err = NoError
                 /\ last.onData = <<SubSeq(last.data, 4, Len(last.data))>>
                 /\ recv = DataExchange
         /\ last.data[2] = X224_TPDU_ERROR
              => /\ last.err = Exception("receive error from tpdu layer")
                 /\ last.onData = <<>>
         /\ last.data[2] \notin {X224_TPDU_DATA, X224_TPDU_ERROR}
              => /\ last.err = InvalidExpectedDataException("unknow tpdu code", last.data[2])
                 /\ last.err.class # Exception("").class
                 /\ last.onData = <<>>

C8_Witness ==
    /\ DataEvent
    /\ last.data = <<2, X224_TPDU_DATA, 128, 240>>
    /\ last.onData = << <<240>> >>
    /\ nDelivered >= 1

(***************************************************************************)
(* C9: whatever the state and the payload, send hands the transport        *)
(* exactly one unit, the bytes 0x02 0xF0 0x80 followed by the payload, and *)
(* changes neither the state nor the two protocol fields.                  *)
(***************************************************************************)
C9_SendPrependsHeader ==
    [][last'.op = "send"
         => /\ last'.sent = << <<2, 240, 128>> \o last'.data >>
            /\ nSent' = nSent + 1
            /\ recv' = recv
            /\ _requestedProtocol' = _requestedProtocol
            /\ _selectedProtocol' = _selectedProtocol]_vars

C9_Witness ==
    /\ last.op = "send"
    /\ last.pre.recv = DataExchange
    /\ last.data = <<240>>
    /\ last.sent = << <<2, 240, 128, 240>> >>

(***************************************************************************)
(* C10: connect in Idle sends exactly one Connection Message, with code    *)
(* CONNECTION_REQUEST and a negotiation block with code NEG_REQ and        *)
(* selectedProtocol = requestedProtocol, and moves to                      *)
(* AwaitingConnectionConfirm; no TLS upgrade, no upper-layer notification. *)
(***************************************************************************)
C10_ConnectSendsRequest ==
    (last.op = "connect" /\ last.pre.recv = Idle)
      => /\ Len(last.sent) = 1
         /\ Len(last.sent[1]) = 15
         /\ last.sent[1][2] = X224_TPDU_CONNECTION_REQUEST
         /\ last.sent[1][8] = TYPE_RDP_NEG_REQ
         /\ SubSeq(last.sent[1], 12, 15) = WriteUInt32Le(last.pre._requestedProtocol)
         /\ recv = AwaitingConnectionConfirm
         /\ last.startTLS = 0
         /\ last.connect = 0
         /\ last.onData = <<>>

C10_Witness ==
    /\ last.op = "connect"
    /\ last.pre.recv = Idle
    /\ recv = AwaitingConnectionConfirm
    /\ nSent = 1

(***************************************************************************)
(* Vocabulary of the codec properties.                                     *)
(***************************************************************************)
\* the bytes of the Negotiation Block within what the codec wrote last
BlockWritten ==
    IF codec.op = "Negotiation" THEN codec.wire ELSE Drop(codec.wire, 7)

\* a block was written by the latest codec step
BlockEncoded == codec.op # "none" /\ BlockWritten # <<>>

\* the length of a block in which exactly the fields that code calls for
\* follow the four fixed bytes
LenForCode(code) ==
    4 + (IF code = TYPE_RDP_NEG_RSP THEN 4 ELSE 0)
      + (IF code = TYPE_RDP_NEG_FAILURE THEN 4 ELSE 0)

(***************************************************************************)
(* C11 (as stated): in every Negotiation Block encoded, the one in the     *)
(* Connection Request of connect included, selectedProtocol is on the wire *)
(* iff code = RESPONSE and failureCode iff code = FAILURE.                 *)
(***************************************************************************)
C11_PresenceDeterminedByCode ==
    BlockEncoded => Len(BlockWritten) = LenForCode(BlockWritten[1])

(***************************************************************************)
(* C11 (amended): a Negotiation Block encoded with its declared field      *)
(* predicates carries selectedProtocol iff code = RESPONSE and failureCode *)
(* iff code = FAILURE.  The block in the Connection Request of connect is  *)
(* the exception: its code is REQUEST and it carries selectedProtocol, set *)
(* to requestedProtocol, and no failureCode.  At most one of the two       *)
(* fields is on the wire in every block.                                   *)
(***************************************************************************)
C11_PresenceByCodeExceptRequest ==
    BlockEncoded
      => /\ Len(BlockWritten) <= 8
         /\ codec.op # "sendConnectionRequest"
              => /\ Len(BlockWritten) = LenForCode(BlockWritten[1])
                 /\ LET n == IF codec.op = "Negotiation" THEN codec.input
                                                         ELSE codec.input.protocolNeg
                    IN /\ n.code = TYPE_RDP_NEG_RSP
                            => Drop(BlockWritten, 4) = WriteUInt32Le(n.selectedProtocol.value)
                       /\ n.code = TYPE_RDP_NEG_FAILURE
                            => Drop(BlockWritten, 4) = WriteUInt32Le(n.failureCode.value)
         /\ codec.op = "sendConnectionRequest"
              => /\ BlockWritten[1] = TYPE_RDP_NEG_REQ
                 /\ Len(BlockWritten) = 8
                 /\ Drop(BlockWritten, 4) = WriteUInt32Le(codec.input._requestedProtocol)

C11_Witness ==
    /\ codec.op = "sendConnectionRequest"
    /\ BlockWritten = <<TYPE_RDP_NEG_REQ, 0, 8, 0, PROTOCOL_SSL, 0, 0, 0>>

(***************************************************************************)
(* C12: for every code in {request, response, failure} and every flags,    *)
(* selectedProtocol and failureCode, a Negotiation Block written and read  *)
(* back has the same code, flags and length, the same value in every field *)
(* that is present, and exactly the fields of its code marked present:     *)
(* none for request, selectedProtocol for response, failureCode for        *)
(* failure.                                                                *)
(***************************************************************************)
C12_NegotiationRoundTrip ==
    codec.op = "Negotiation"
      => LET n == codec.input
             r == codec.output
         IN /\ ~ r.error
            /\ r.neg._is_readed
            /\ r.neg.code = n.code
            /\ r.neg.flag = n.flag
            /\ r.neg.len = n.len
            /\ r.neg.selectedProtocol._is_readed = (n.code = TYPE_RDP_NEG_RSP)
            /\ r.neg.failureCode._is_readed = (n.code = TYPE_RDP_NEG_FAILURE)
            /\ r.neg.selectedProtocol._is_readed
                 => r.neg.selectedProtocol.value = n.selectedProtocol.value
            /\ r.neg.failureCode._is_readed
                 => r.neg.failureCode.value = n.failureCode.value

C12_Witness ==
    /\ codec.op = "Negotiation"
    /\ codec.input.code = TYPE_RDP_NEG_FAILURE
    /\ codec.input.selectedProtocol.value = 257
    /\ codec.input.failureCode.value = SSL_WITH_USER_AUTH_REQUIRED_BY_SERVER
    /\ codec.output.neg.failureCode.value = SSL_WITH_USER_AUTH_REQUIRED_BY_SERVER
    /\ ~ codec.output.neg.selectedProtocol._is_readed

(***************************************************************************)
(* C13: in every Connection Message encoded, with or without a negotiation *)
(* block and whichever conditional field the block carries, the first byte *)
(* equals the number of encoded bytes minus one.                           *)
(***************************************************************************)
C13_ComputedLength ==
    codec.op \in {"TPDUConnectMessage", "sendConnectionRequest"}
      => codec.wire[1] = Len(codec.wire) - 1

C13_Witness ==
    /\ codec.op = "TPDUConnectMessage"
    /\ codec.input.protocolNeg.code = TYPE_RDP_NEG_FAILURE
    /\ Len(codec.wire) = 15
    /\ codec.wire[1] = 14

(***************************************************************************)
(* C14: a Connection Message read from a buffer that ends right after the  *)
(* five padding bytes decodes without error and reports the negotiation    *)
(* block as absent; the confirm handler then fails with its own check, not *)
(* with the error of a failed decode, which it gets for a buffer that does *)
(* not decode.                                                             *)
(***************************************************************************)
C14_AbsentBlockIsNotAnError ==
    ConfirmEvent
      => /\ Len(last.data) = 7
              => /\ ~ Received.error
                 /\ ~ Received.protocolNeg._is_readed
                 /\ last.err.class \in LayerErrors
                 /\ last.data[2] = X224_TPDU_CONNECTION_CONFIRM
                      => last.err.msg = "server must support negotiation"
         /\ Received.error => last.err = FormatError

C14_Witness ==
    /\ ConfirmEvent
    /\ last.data = <<6, X224_TPDU_CONNECTION_CONFIRM, 0, 0, 0, 0, 0>>
    /\ last.err.msg = "server must support negotiation"

(***************************************************************************)
(* C15: on a successful confirm the TLS upgrade is issued first, then the  *)
(* data handler is armed, then the upper layer is notified; so at the      *)
(* notification the state is DataExchange and an upgrade has been issued.  *)
(* The notification is given once per successful confirm and never on a    *)
(* failed one.                                                             *)
(***************************************************************************)
C15_UpgradeArmNotify ==
    /\ last.connect \in {0, 1}
    /\ last.connect = 1 <=> (ConfirmEvent /\ PassesEveryCheck(last.data))
    /\ last.connect = 1
         => /\ last.order = <<"startTLS", "setNextState", "connect">>
            /\ last.startTLS = 1
            /\ recv = DataExchange
            /\ tlsUpgrades >= nConnected
    /\ last.err # NoError => last.connect = 0

C15_Witness ==
    /\ ConfirmEvent
    /\ last.connect = 1
    /\ last.order = <<"startTLS", "setNextState", "connect">>
    /\ nConnected = 1

FailedReceive == last.op = "recv" /\ last.err # NoError

C17_SelectedIsRequestedUntilSuccess ==
    /\ recv # DataExchange => _selectedProtocol = _requestedProtocol
    /\ FailedReceive
         => /\ _requestedProtocol = last.pre._requestedProtocol
            /\ _selectedProtocol = last.pre._selectedProtocol

(***************************************************************************)
(* C17 (amended): selectedProtocol equals requestedProtocol in Idle.  A    *)
(* failed receive event leaves requestedProtocol unchanged, and leaves     *)
(* selectedProtocol unchanged unless it is a confirm refused for the       *)
(* protocol it selected: that confirm has stored the peer's value (0 when  *)
(* the block carried none) in selectedProtocol, which then differs from    *)
(* requestedProtocol.                                                      *)
(***************************************************************************)
C17_RefusedSelectionIsStored ==
    /\ recv = Idle => _selectedProtocol = _requestedProtocol
    /\ FailedReceive
         => /\ _requestedProtocol = last.pre._requestedProtocol
            /\ IF ConfirmEvent /\ last.err.msg = "only ssl protocol is supported"
                 THEN /\ _selectedProtocol = Received.protocolNeg.selectedProtocol.value
                      /\ _selectedProtocol # _requestedProtocol
                 ELSE _selectedProtocol = last.pre._selectedProtocol

C17_Witness ==
    /\ UnsupportedConfirm
    /\ last.data = ConnectFrame(X224_TPDU_CONNECTION_CONFIRM, 0, RspBlock(0, PROTOCOL_HYBRID))
    /\ recv = AwaitingConnectionConfirm
    /\ _selectedProtocol = PROTOCOL_HYBRID
    /\ _requestedProtocol = PROTOCOL_SSL

(***************************************************************************)
(* C18: whenever the data handler is armed, selectedProtocol and           *)
(* requestedProtocol are both TLS and a TLS upgrade has been issued;       *)
(* requestedProtocol never changes.                                        *)
(***************************************************************************)
C18_DataExchangeInvariant ==
    /\ recv = DataExchange
         => /\ _selectedProtocol = PROTOCOL_SSL
            /\ _requestedProtocol = PROTOCOL_SSL
            /\ tlsUpgrades >= 1
    /\ _requestedProtocol = last.pre._requestedProtocol
    /\ _requestedProtocol = PROTOCOL_SSL

C18_Witness ==
    /\ recv = DataExchange
    /\ DataEvent
    /\ last.err = Exception("receive error from tpdu layer")
    /\ _selectedProtocol = PROTOCOL_SSL
    /\ tlsUpgrades = 1

(***************************************************************************)
(* C19: the state never moves backward: a connect call met in              *)
(* AwaitingConnectionConfirm or DataExchange sends no second Connection    *)
(* Request and leaves the receive handler alone, and one instance issues   *)
(* at most one TLS upgrade.                                                *)
(***************************************************************************)
C19_NeverBackward ==
    /\ (last.op = "connect" /\ last.pre.recv # Idle)
         => (last.sent = <<>> /\ recv = last.pre.recv)
    /\ tlsUpgrades <= 1

(***************************************************************************)
(* C20: a confirm that violates several checks reports the first of them:  *)
(* a wrong code before a missing block, a missing block before a failure   *)
(* code, a failure code before an unsupported selectedProtocol.            *)
(***************************************************************************)
C20_FirstViolationReported ==
    (ConfirmEvent /\ ~ Received.error)
      => /\ Received.code # X224_TPDU_CONNECTION_CONFIRM
              => last.err.msg = "invalid TPDU header code"
         /\ (Received.code = X224_TPDU_CONNECTION_CONFIRM /\ ~ Received.protocolNeg._is_readed)
              => last.err.msg = "server must support negotiation"
         /\ (/\ Received.code = X224_TPDU_CONNECTION_CONFIRM
             /\ Received.protocolNeg._is_readed
             /\ Received.protocolNeg.failureCode._is_readed)
              => /\ last.err.msg = "negotiation failure code"
                 /\ _selectedProtocol = last.pre._selectedProtocol
         /\ last.err.msg = "only ssl protocol is supported"
              => /\ Received.code = X224_TPDU_CONNECTION_CONFIRM
                 /\ Received.protocolNeg._is_readed
                 /\ ~ Received.protocolNeg.failureCode._is_readed

C20_Witness ==
    /\ ConfirmEvent
    /\ last.data = ConnectFrame(X224_TPDU_CONNECTION_REQUEST, 0,
                                FailureBlock(SSL_NOT_ALLOWED_BY_SERVER))
    /\ last.err = InvalidExpectedDataException("invalid TPDU header code",
                                               X224_TPDU_CONNECTION_REQUEST)

====
